---- MODULE Spec2Model ----
(***************************************************************************)
(* A model of pdf_image_remover.py: the two-phase scan/classify pipeline   *)
(* (PdfImageProcessor, AnalysisRunner) and the batch driver (MainApp).     *)
(*                                                                         *)
(* Categories are written QR, Repeated and Corner for the source's         *)
(* category strings (lines 57, 60 and 70).  A Python dict is a function    *)
(* on its key set, a list is a sequence, None is the string "None".        *)
(***************************************************************************)
EXTENDS Integers, Sequences, FiniteSets, TLC

\* ------------------------------------------------------------------ bounds
\* Pipeline runs (documents analysed) one behaviour may start.
MaxRuns == 2
\* os.cpu_count() ranges over 1..MaxCpu.
MaxCpu == 2
\* Chunk slices the aggregation harness merges.
NChunks == 2
\* Distinct byte payloads the aggregation harness hands out.
NPayloads == 2
\* Pages of the documents the classifier harness draws its tasks from.
RulePages == 3
\* Pages of the long documents the classifier harness draws.
WidePages == 10
\* Page counts and processor counts of the chunking harness.
PartPages == 9
PartCpu == 5
\* Run ids the progress harness hands out.
MaxTokens == 2
\* Pages of the documents the scanner harness draws.
DrawnPages == 2

\* --------------------------------------------------------------- constants
\* for _ in range(100): messages one poll tick drains at most.
PollLimit == 100
\* max(1, min(os.cpu_count() or 1, 4))
WorkerCap == 4

None == "None"
Categories == {"QR", "Repeated", "Corner"}

\* ----------------------------------------------------------------- helpers
Min2(a, b) == IF a <= b THEN a ELSE b
Max2(a, b) == IF a >= b THEN a ELSE b
CeilDiv(a, b) == (a + b - 1) \div b
EmptyMap == [k \in {} |-> None]
\* d[k] = v on a dict.
Put(d, k, v) == [x \in (DOMAIN d) \cup {k} |-> IF x = k THEN v ELSE d[x]]
RECURSIVE SeqSum(_)
SeqSum(s) == IF s = <<>> THEN 0 ELSE Head(s) + SeqSum(Tail(s))
Range(s) == {s[i] : i \in DOMAIN s}

\* --------------------------------------------------- the documents on disk
(* What the external collaborators (fitz, PIL, pyzbar) answer for each     *)
(* file.  A page is its size and its image placements in get_image_info    *)
(* order; an image resource is its pixel size, whether extract_image and   *)
(* Image.open succeed on it, whether pyzbar decodes a code in it, and its  *)
(* bytes.                                                                  *)
(*   bad:   fitz.open raises.                                              *)
(*   empty: opens, has no page.                                            *)
(*   plain: one page without images.                                       *)
(*   marks: two 600x800 pages; image 1 (a logo, top-left corner) on both   *)
(*          pages, image 2 (a 40x40 QR stamp, top-right corner) on page 1, *)
(*          image 3 (5x5, degenerate) and image 4 (extraction fails) on    *)
(*          page 0, and an inline image (xref 0) on page 1.                *)
(*   drawn: the document of the scanner harness, held by sdoc.              *)
VARIABLE sdoc   \* scanner harness: the pages of the document "drawn"
Docs == {"bad", "empty", "plain", "marks"}

PageSize == <<600, 800>>
\* An entry of get_image_info; broken: extracting or opening the image raises
\* at this placement.
Placement(x, b) == [xref |-> x, bbox |-> b, broken |-> FALSE]

Openable(d) == d # "bad"

Pages(d) ==
    CASE d = "plain" -> << [size |-> PageSize, imgs |-> <<>>] >>
      [] d = "marks" ->
           << [size |-> PageSize,
               imgs |-> << Placement(1, <<0, 0, 50, 50>>),
                           Placement(3, <<300, 400, 305, 405>>),
                           Placement(4, <<100, 300, 200, 400>>) >>],
              [size |-> PageSize,
               imgs |-> << Placement(1, <<0, 0, 50, 50>>),
                           Placement(0, <<10, 700, 20, 710>>),
                           Placement(2, <<560, 10, 590, 40>>) >>] >>
      [] d = "drawn" -> sdoc
      [] OTHER -> <<>>

\* Images of the scanner harness, xrefs 11, 12, ...: sizes on either side of
\* the thresholds of the small-image filter.
SizedImages ==
    << [bytes |-> "px9x9", w |-> 9, h |-> 9],
       [bytes |-> "px8x100", w |-> 8, h |-> 100],
       [bytes |-> "px6x6", w |-> 6, h |-> 6],
       [bytes |-> "px9x10", w |-> 9, h |-> 10] >>
ScanRefs == {10 + i : i \in DOMAIN SizedImages}

\* doc.extract_image(xref): whether it succeeds, and the bytes it returns.
ImageOf(d, xref) ==
    CASE xref = 1 -> [ok |-> TRUE, bytes |-> "logo"]
      [] xref = 2 -> [ok |-> TRUE, bytes |-> "stamp"]
      [] xref = 3 -> [ok |-> TRUE, bytes |-> "dot"]
      [] xref \in ScanRefs -> [ok |-> TRUE, bytes |-> SizedImages[xref - 10].bytes]
      [] OTHER -> [ok |-> FALSE, bytes |-> ""]

\* What PIL and pyzbar answer for a byte payload: whether Image.open succeeds,
\* the pixel size, and whether decode() finds a code.
Payloads == {"logo", "stamp", "dot", "small_code", "wide_code", "photo", "garbled",
             "code36x40", "code37x40", "code33x30", "code40x29"}
Decoded(bytes) ==
    CASE bytes = "logo" -> [ok |-> TRUE, w |-> 120, h |-> 60, code |-> FALSE]
      [] bytes = "stamp" -> [ok |-> TRUE, w |-> 40, h |-> 40, code |-> TRUE]
      [] bytes = "dot" -> [ok |-> TRUE, w |-> 5, h |-> 5, code |-> FALSE]
      [] bytes = "small_code" -> [ok |-> TRUE, w |-> 20, h |-> 20, code |-> TRUE]
      [] bytes = "wide_code" -> [ok |-> TRUE, w |-> 60, h |-> 40, code |-> TRUE]
      [] bytes = "photo" -> [ok |-> TRUE, w |-> 200, h |-> 200, code |-> FALSE]
      [] bytes = "code36x40" -> [ok |-> TRUE, w |-> 36, h |-> 40, code |-> TRUE]
      [] bytes = "code37x40" -> [ok |-> TRUE, w |-> 37, h |-> 40, code |-> TRUE]
      [] bytes = "code33x30" -> [ok |-> TRUE, w |-> 33, h |-> 30, code |-> TRUE]
      [] bytes = "code40x29" -> [ok |-> TRUE, w |-> 40, h |-> 29, code |-> TRUE]
      [] \E i \in DOMAIN SizedImages : SizedImages[i].bytes = bytes ->
           LET i == CHOOSE j \in DOMAIN SizedImages : SizedImages[j].bytes = bytes
           IN [ok |-> TRUE, w |-> SizedImages[i].w, h |-> SizedImages[i].h,
               code |-> FALSE]
      [] OTHER -> [ok |-> FALSE, w |-> 0, h |-> 0, code |-> FALSE]

\* ------------------------------------------------------- PlacementScanner
\* A variant of the filter without its first test.
DegenerateLoose(w, h) == (w <= 6 /\ h <= 6) \/ w * h <= 64

\* min(width, height) <= 8 or (width <= 6 and height <= 6) or width*height <= 64
Degenerate(w, h) == Min2(w, h) <= 8 \/ (w <= 6 /\ h <= 6) \/ w * h <= 64

\* A variant of the skip test that takes an image whose extraction raised.
SkippedUnlessRaised(img, res, im) ==
    \/ img.xref = 0
    \/ res.bytes = ""
    \/ (im.ok /\ Degenerate(im.w, im.h))

\* The continue statements of the inner loop: an inline image, an exception
\* in extract_image or Image.open, no bytes, a degenerate size.
Skipped(img, res, im) ==
    \/ img.xref = 0
    \/ img.broken
    \/ ~res.ok
    \/ res.bytes = ""
    \/ ~im.ok
    \/ Degenerate(im.w, im.h)

\* One pass of the inner loop of _process_page_chunk_ret over a page's images.
RECURSIVE ScanImages(_, _, _, _, _)
ScanImages(d, page_num, size, imgs, acc) ==
    IF imgs = <<>> THEN acc
    ELSE LET img == Head(imgs)
             xref == img.xref
             res == ImageOf(d, xref)
             im == Decoded(res.bytes)
             skipped == Skipped(img, res, im)
             pl == [page_num |-> page_num, bbox |-> img.bbox, page_size |-> size]
             old == IF xref \in DOMAIN acc.map THEN acc.map[xref]
                    ELSE [pages |-> {}, placements |-> <<>>]
             new == [pages |-> old.pages \cup {page_num},
                     placements |-> Append(old.placements, pl)]
             acc2 == [map |-> Put(acc.map, xref, new),
                      bytes |-> IF xref \in DOMAIN acc.bytes THEN acc.bytes
                                ELSE Put(acc.bytes, xref, res.bytes)]
         IN ScanImages(d, page_num, size, Tail(imgs), IF skipped THEN acc ELSE acc2)

RECURSIVE ScanPages(_, _, _, _)
ScanPages(d, page_num, end_page, acc) ==
    IF page_num >= end_page THEN acc
    ELSE IF page_num >= Len(Pages(d)) THEN ScanPages(d, page_num + 1, end_page, acc)
    ELSE LET page == Pages(d)[page_num + 1]
         IN ScanPages(d, page_num + 1, end_page,
                      ScanImages(d, page_num, page.size, page.imgs, acc))

\* The (serializable_map, image_bytes_chunk) a chunk returns when nothing raises.
process_page_chunk_ret(d, start_page, end_page) ==
    ScanPages(d, start_page, end_page, [map |-> EmptyMap, bytes |-> EmptyMap])

\* ----------------------------------------------------------- ChunkScheduler
num_workers(cpu) == Max2(1, Min2(cpu, WorkerCap))
\* A variant of the chunk size that rounds down.
chunk_size_floor(total_pages, cpu) == Max2(1, total_pages \div num_workers(cpu))
chunk_size(total_pages, cpu) == Max2(1, CeilDiv(total_pages, num_workers(cpu)))
\* [(i, min(i + chunk_size, total_pages)) for i in range(0, total_pages, chunk_size)]
page_chunks(total_pages, cpu) ==
    LET cs == chunk_size(total_pages, cpu)
    IN [k \in 1..CeilDiv(total_pages, cs) |->
           <<(k - 1) * cs, Min2((k - 1) * cs + cs, total_pages)>>]

\* ------------------------------------------------------ Registry Aggregator
\* A variant of the page-set merge that keeps only the latest chunk's pages.
MergePagesLatest(old, new) == new
\* self.image_map[xref]['pages'].update(data['pages'])
MergePages(old, new) == old \cup new
\* self.image_map[xref]['placements'].extend(data['placements'])
MergePlacements(old, new) == old \o new
\* self.image_bytes_map.update(bytes_chunk)
MergeBytes(image_bytes_map, bytes_chunk) ==
    [x \in (DOMAIN image_bytes_map) \cup (DOMAIN bytes_chunk) |->
        IF x \in DOMAIN bytes_chunk THEN bytes_chunk[x] ELSE image_bytes_map[x]]

\* reg is [image_map, image_bytes_map]; the result is the registry after the call.
aggregate_chunk_data(reg, map_chunk, bytes_chunk) ==
    [image_map |->
        [x \in (DOMAIN reg.image_map) \cup (DOMAIN map_chunk) |->
            IF x \notin DOMAIN map_chunk THEN reg.image_map[x]
            ELSE LET old == IF x \in DOMAIN reg.image_map THEN reg.image_map[x]
                            ELSE [pages |-> {}, placements |-> <<>>]
                 IN [pages |-> MergePages(old.pages, map_chunk[x].pages),
                     placements |-> MergePlacements(old.placements,
                                                    map_chunk[x].placements)]],
     image_bytes_map |-> MergeBytes(reg.image_bytes_map, bytes_chunk)]

EmptyRegistry == [image_map |-> EmptyMap, image_bytes_map |-> EmptyMap]

\* ---------------------------------------------------------------- Classifier
\* A variant of is_qr_code without the size and aspect-ratio gates.
is_qr_code_ungated(image_bytes) ==
    Decoded(image_bytes).ok /\ Decoded(image_bytes).code

\* is_qr_code: any exception (a failed decode) is "no QR".
is_qr_code(image_bytes) ==
    LET im == Decoded(image_bytes)
    IN IF ~im.ok THEN FALSE
       ELSE IF im.w < 30 \/ im.h < 30 THEN FALSE
       ELSE IF im.h = 0 THEN FALSE
       ELSE IF ~(9 * im.h < 10 * im.w /\ 10 * im.w < 11 * im.h) THEN FALSE
       ELSE im.code

\* A variant of the repetition test with a strict comparison.
RepeatedMatchStrict(pages, total_pages) ==
    total_pages > 1 /\ 10 * Cardinality(pages) > 7 * total_pages

\* total_pages > 1 and len(pages) >= total_pages * 0.7
RepeatedMatch(pages, total_pages) ==
    total_pages > 1 /\ 10 * Cardinality(pages) >= 7 * total_pages

\* A variant of the corner test that looks at the top-left corner only.
CornerPlacementLeftOnly(pl) ==
    100 * pl.bbox[3] < 25 * pl.page_size[1] /\ 100 * pl.bbox[4] < 15 * pl.page_size[2]

\* (x1 < margin_x and y1 < margin_y) or (x0 > page_w - margin_x and y1 < margin_y)
\* with margin_x = page_w * 0.25 and margin_y = page_h * 0.15.
CornerPlacement(pl) ==
    LET x0 == pl.bbox[1]
        x1 == pl.bbox[3]
        y1 == pl.bbox[4]
        page_w == pl.page_size[1]
        page_h == pl.page_size[2]
    IN \/ (100 * x1 < 25 * page_w /\ 100 * y1 < 15 * page_h)
       \/ (100 * x0 > 75 * page_w /\ 100 * y1 < 15 * page_h)

CornerMatch(placements) == \E i \in DOMAIN placements : CornerPlacement(placements[i])

\* The (category, xref, pages) result; Python's None is the record NoResult.
NoResult == [category |-> None, xref |-> 0, pages |-> {}]

\* A variant that tries the corner rule before the repetition rule.
analyze_corner_first(task, rules, total_pages) ==
    IF rules.qr /\ is_qr_code(task.bytes)
    THEN [category |-> "QR", xref |-> task.xref, pages |-> task.info.pages]
    ELSE IF rules.corners /\ CornerMatch(task.info.placements)
    THEN [category |-> "Corner", xref |-> task.xref, pages |-> task.info.pages]
    ELSE IF rules.repeated /\ RepeatedMatch(task.info.pages, total_pages)
    THEN [category |-> "Repeated", xref |-> task.xref, pages |-> task.info.pages]
    ELSE NoResult

analyze_single_image_ret(task, rules, total_pages) ==
    IF rules.qr /\ is_qr_code(task.bytes)
    THEN [category |-> "QR", xref |-> task.xref, pages |-> task.info.pages]
    ELSE IF rules.repeated /\ RepeatedMatch(task.info.pages, total_pages)
    THEN [category |-> "Repeated", xref |-> task.xref, pages |-> task.info.pages]
    ELSE IF rules.corners /\ CornerMatch(task.info.placements)
    THEN [category |-> "Corner", xref |-> task.xref, pages |-> task.info.pages]
    ELSE NoResult

\* ------------------------------------------------------------------- state
VARIABLES
    cpu,        \* os.cpu_count() of the machine
    app,        \* MainApp: rules, is_running, batch_mode, batch_queue, output_dir,
                \* auto_report, processor (a file path), runner (the number of the
                \* AnalysisRunner it holds, 0 for None)
    runner,     \* the AnalysisRunner MainApp holds, with the callbacks it has
                \* invoked so far (history fields cb, delivered, saves, ...)
    p1,         \* the thread running PdfImageProcessor.start_phase1 for runner
    p2,         \* the thread running start_phase2 for runner, and its worker processes
    retired,    \* history: one summary per runner MainApp has replaced
    batch,      \* history: the file list and mode of the current batch, the
                \* documents whose pipeline it has started, the dialogs that
                \* closed it, and whether a run was polling when it started
    seen,       \* history: per document, the CandidateSets delivered for it
    chunks,     \* aggregation harness: the chunk slices of one document
    arrival,    \* aggregation harness: per arrival order, the chunks merged so far
    reg,        \* aggregation harness: per arrival order, the registry
    ctask,      \* classifier harness: a task, a RuleConfig and a page count
    cres,       \* classifier harness: what _analyze_single_image_ret returned
    pctl,       \* progress harness: a ProgressController
    pcall       \* progress harness: the last call made on it, and pctl before it

(* A runner that MainApp has replaced is unreachable: its poll timer is not  *)
(* rearmed (lines 420, 443, 449), each runner has a queue of its own (line   *)
(* 380) and its threads write to that queue only.  The model keeps the       *)
(* runner MainApp holds and a summary of each replaced one.                  *)
pipeVars == <<cpu, app, runner, p1, p2, retired, batch, seen>>
aggVars == <<chunks, arrival, reg, sdoc>>
ruleVars == <<ctask, cres>>
progVars == <<pctl, pcall>>
vars == <<cpu, app, runner, p1, p2, retired, batch, seen, chunks, arrival, reg, sdoc,
          ctask, cres, pctl, pcall>>

Msg(t, d) == [type |-> t, data |-> d]
RuleConfigs == [qr : BOOLEAN, repeated : BOOLEAN, corners : BOOLEAN]
EmptyCandidates == [c \in Categories |-> <<>>]

\* The xrefs of the catalogue that survive the scanner, i.e. that a preview can list.
Selectable == UNION {DOMAIN process_page_chunk_ret(d, 0, Len(Pages(d))).map : d \in Docs}

(* What the user and the save collaborator answer during one on_result:     *)
(* confirm (PreviewWindow closed with the confirm button), sel (the boxes   *)
(* left checked), path (the save dialog returned a path), save_ok           *)
(* (save_with_deletions did not raise).                                     *)
Envs ==
    {e \in [confirm : BOOLEAN, sel : SUBSET Selectable, path : BOOLEAN, save_ok : BOOLEAN] :
        /\ (~e.confirm => e.sel = {} /\ ~e.path)
        /\ (~e.path => ~e.save_ok)}
AnyEnv == [confirm |-> FALSE, sel |-> {}, path |-> FALSE, save_ok |-> FALSE]

\* ---------------------------------------------------------- AnalysisRunner
\* AnalysisRunner.__init__ followed by start(rules): _reset_state, the phase-1
\* thread is started, polling is scheduled.
NewRunner(id, doc, rules, on_result) ==
    [id |-> id, doc |-> doc, on_result |-> on_result, q |-> <<>>, polling |-> TRUE,
     phase |-> "phase1_running", rules |-> rules,
     total_pages |-> 0, total_chunks |-> 0, completed_chunks |-> 0,
     total_images |-> 0, completed_images |-> 0,
     image_map |-> EmptyMap, image_bytes_map |-> EmptyMap,
     cb |-> <<>>, delivered |-> <<>>, saves |-> <<>>, chunk_error |-> FALSE,
     preview |-> None, picked |-> {},
     p2_starts |-> 0, token |-> 0]

\* self.runner = None
NoRunner ==
    [NewRunner(0, None, [qr |-> FALSE, repeated |-> FALSE, corners |-> FALSE], None)
        EXCEPT !.polling = FALSE, !.phase = None]

NewP1 == [pc |-> "open", chunks |-> <<>>, pending |-> {}]
NewP2 == [pc |-> "idle", tasks |-> EmptyMap, pending |-> {}, result_q |-> <<>>,
          candidates |-> EmptyCandidates, completed |-> 0, total |-> 0,
          failed |-> {}, broke |-> FALSE]
NoThread == [NewP1 EXCEPT !.pc = "done"]

\* The terminal callbacks (on_result, on_error) among the callbacks of a runner.
Terminals(rn) == {i \in DOMAIN rn.cb : rn.cb[i].kind \in {"result", "error"}}
Outcome(rn) ==
    IF Terminals(rn) = {} THEN None
    ELSE rn.cb[CHOOSE i \in Terminals(rn) : \A j \in Terminals(rn) : i <= j].kind

\* Callbacks the runner invoked after its first terminal callback.
AfterTerminal(rn) ==
    IF Terminals(rn) = {} THEN 0
    ELSE Len(rn.cb) - (CHOOSE i \in Terminals(rn) : \A j \in Terminals(rn) : i <= j)

\* What is kept of a replaced runner.
Summary(rn) ==
    [id |-> rn.id, doc |-> rn.doc, outcome |-> Outcome(rn),
     terminals |-> Cardinality(Terminals(rn)), after |-> AfterTerminal(rn),
     polling |-> rn.polling, chunk_error |-> rn.chunk_error,
     p2_starts |-> rn.p2_starts,
     saves |-> [i \in DOMAIN rn.saves |-> rn.saves[i].outcome],
     results |-> Cardinality({i \in DOMAIN rn.cb : rn.cb[i].kind = "result"}),
     token |-> rn.token]

(* The state a handler works on: w.cur is the runner whose poll is running  *)
(* (self in _schedule_poll), w.runner the runner MainApp holds, which a     *)
(* callback may replace.                                                     *)
World ==
    [app |-> app, cur |-> runner, runner |-> runner, p1 |-> p1, p2 |-> p2,
     batch |-> batch, seen |-> seen]

\* self.processor = PdfImageProcessor(current); self.runner = AnalysisRunner(...);
\* self.runner.start(self._rules())
StartRunner(w, current, on_result) ==
    [w EXCEPT !.app.processor = current,
              !.app.runner = @ + 1,
              !.runner = [NewRunner(w.app.runner + 1, current, w.app.rules, on_result)
                             EXCEPT !.token = w.app.current_run_id],
              !.p1 = NewP1,
              !.p2 = NewP2,
              !.batch.ran = Append(@, current)]

\* ------------------------------------------------------ ProgressController
(* The controller is [run_id, target, status, anim_job, value]: _run_id,    *)
(* _target, _status, whether _anim_job holds a timer, and bar['value'].     *)
(* Percentages are counted in tenths of a percent, rounded down.            *)
NewController ==
    [run_id |-> 0, target |-> 0, status |-> "", anim_job |-> FALSE, value |-> 0]

\* ProgressController.start: the new controller; the id it returns is its run_id.
ctl_start(c, status) ==
    [c EXCEPT !.run_id = @ + 1, !.target = 0, !.value = 0, !.status = status,
              !.anim_job = TRUE]

\* A variant of update that does not look at the run id.
ctl_update_any(c, target, status, tagged, run_id) ==
    [c EXCEPT !.target = Max2(0, Min2(1000, target)), !.status = status,
              !.anim_job = TRUE]

\* ProgressController.update(target, status, run_id); tagged is false for
\* run_id=None.
ctl_update(c, target, status, tagged, run_id) ==
    IF tagged /\ run_id # c.run_id THEN c
    ELSE [c EXCEPT !.target = Max2(0, Min2(1000, target)), !.status = status,
                   !.anim_job = TRUE]

\* ProgressController._step, the timer _kick arms.
ctl_step(c) ==
    LET delta == c.target - c.value
        size == IF delta >= 0 THEN delta ELSE 0 - delta
        step == Max2(size \div 5, 5)
    IN IF size < 5 THEN [c EXCEPT !.value = c.target, !.anim_job = FALSE]
       ELSE [c EXCEPT !.value = IF delta > 0 THEN @ + step ELSE @ - step]

\* ----------------------------------------------------------------- MainApp
\* _set_running: the widgets' states follow is_running; a stop clears the batch.
set_running(w, running) ==
    IF running THEN [w EXCEPT !.app.is_running = TRUE]
    ELSE [w EXCEPT !.app.is_running = FALSE,
                   !.app.batch_mode = None,
                   !.app.batch_queue = <<>>,
                   !.app.output_dir = None]

interactive_next(w) ==
    IF w.app.batch_queue = <<>> THEN set_running(w, FALSE)
    ELSE StartRunner([w EXCEPT !.app.batch_queue = Tail(@)],
                     Head(w.app.batch_queue), "interactive")

\* The counts of the final report: removed > 0 is a success, anything else a skip
\* (with no entry at all the dialog only says that every file was processed).
ReportOf(auto_report) ==
    [success |-> Cardinality({i \in DOMAIN auto_report : auto_report[i].removed > 0}),
     skipped |-> Cardinality({i \in DOMAIN auto_report : ~(auto_report[i].removed > 0)}),
     entries |-> Len(auto_report)]

\* How the final report counts an entry (lines 833-840): there is no third count.
ReportClass(item) == IF item.removed > 0 THEN "success" ELSE "skip"

auto_next(w) ==
    IF w.app.batch_queue = <<>>
    THEN [set_running(w, FALSE) EXCEPT
             !.batch.finals = Append(@, [dialog |-> IF w.app.auto_report # <<>>
                                                    THEN "report" ELSE "done",
                                         counts |-> ReportOf(w.app.auto_report)])]
    ELSE StartRunner([w EXCEPT !.app.batch_queue = Tail(@)],
                     Head(w.app.batch_queue), "auto")

\* A variant of _on_error that gives the batch up at the first failure.
on_error_stop(w, err) == set_running(w, FALSE)

on_error(w, err) ==
    IF w.app.batch_mode = "interactive" THEN interactive_next(w)
    ELSE IF w.app.batch_mode = "auto" THEN auto_next(w)
    ELSE set_running(w, FALSE)

\* PdfImageProcessor.save_with_deletions: (removed_count, affected_pages).
save_with_deletions(d, xrefs_to_delete) ==
    LET hits(p) == {i \in DOMAIN Pages(d)[p].imgs : Pages(d)[p].imgs[i].xref \in xrefs_to_delete}
    IN [removed |-> SeqSum([p \in DOMAIN Pages(d) |-> Cardinality(hits(p))]),
        pages |-> {p \in DOMAIN Pages(d) : hits(p) # {}}]

\* A variant of the union that reads the QR category only.
CandidateXrefsQrOnly(candidates) ==
    {candidates["QR"][i].xref : i \in DOMAIN candidates["QR"]}

\* The xrefs of every category's items.
CandidateXrefs(candidates) ==
    UNION {{candidates[c][i].xref : i \in DOMAIN candidates[c]} : c \in Categories}

on_result_auto(w, candidates, env) ==
    LET xrefs == CandidateXrefs(candidates)
        file == w.app.processor
        saved == save_with_deletions(file, xrefs)
        item == IF xrefs # {} /\ env.save_ok
                THEN [file |-> file, out |-> "cleaned", removed |-> saved.removed,
                      pages |-> saved.pages]
                ELSE [file |-> file, out |-> "", removed |-> 0, pages |-> {}]
        w1 == [w EXCEPT !.app.auto_report = Append(@, item),
                        !.cur.saves =
                            IF xrefs # {}
                            THEN Append(@, [xrefs |-> xrefs,
                                            outcome |-> IF env.save_ok THEN "saved"
                                                        ELSE "failed"])
                            ELSE @]
    IN auto_next(w1)

\* A variant of _on_result_interactive that saves every candidate without
\* looking at the preview's answer.
on_result_interactive_unasked(w, candidates, env) ==
    LET has_candidates == \E c \in Categories : candidates[c] # <<>>
        w1 == IF has_candidates
              THEN [w EXCEPT !.cur.preview = IF env.confirm THEN "confirmed"
                                             ELSE "cancelled",
                             !.cur.picked = CandidateXrefs(candidates) \cap env.sel,
                             !.cur.saves =
                                 Append(@, [xrefs |-> CandidateXrefs(candidates),
                                            outcome |-> IF env.save_ok THEN "saved"
                                                        ELSE "failed"])]
              ELSE w
    IN interactive_next(w1)

\* The preview is shown when there is a candidate; its answer (history fields
\* preview and picked) is the set of boxes left checked when it was closed
\* with the confirm button.  The save collaborator is called when that set is
\* not empty.
on_result_interactive(w, candidates, env) ==
    LET has_candidates == \E c \in Categories : candidates[c] # <<>>
        xrefs_to_delete == IF env.confirm THEN CandidateXrefs(candidates) \cap env.sel
                           ELSE {}
        w0 == IF has_candidates
              THEN [w EXCEPT !.cur.preview = IF env.confirm THEN "confirmed"
                                             ELSE "cancelled",
                             !.cur.picked = xrefs_to_delete]
              ELSE w
        w1 == IF has_candidates /\ xrefs_to_delete # {}
              THEN [w0 EXCEPT !.cur.saves =
                        Append(@, [xrefs |-> xrefs_to_delete,
                                   outcome |-> IF ~env.path THEN "cancelled"
                                               ELSE IF env.save_ok THEN "saved"
                                               ELSE "failed"])]
              ELSE w0
    IN interactive_next(w1)

\* The value field of a callback that carries no progress value.
NoValue == [num |-> 0, den |-> 0]

\* self.on_progress(msg) of the polled runner.
on_progress(w, data, status) ==
    [w EXCEPT !.cur.cb = Append(@, [kind |-> "progress", value |-> data]),
              !.app.progress_ctl = ctl_update(@, (10 * data.num) \div data.den, status,
                                              TRUE, w.app.current_run_id)]

\* self.on_result(result) of the polled runner.
on_result(w, candidates, env) ==
    LET w1 == [w EXCEPT !.cur.cb = Append(@, [kind |-> "result", value |-> NoValue]),
                        !.cur.delivered = Append(@, candidates),
                        !.seen[w.cur.doc] = @ \cup {candidates}]
    IN IF w.cur.on_result = "auto" THEN on_result_auto(w1, candidates, env)
       ELSE on_result_interactive(w1, candidates, env)

\* self.on_error(data) of the polled runner.
runner_on_error(w, err) ==
    on_error([w EXCEPT !.cur.cb = Append(@, [kind |-> "error", value |-> NoValue])], err)

\* ------------------------------------------------- AnalysisRunner, the poll
\* Progress values are exact fractions num/den of a percent.
Frac(n, d) == [num |-> n, den |-> d]
\* (self.completed_chunks / self.total_chunks) * 50
phase1_progress(completed_chunks, total_chunks) == Frac(50 * completed_chunks, total_chunks)
\* A variant of the phase-2 value without the phase-1 half.
phase2_progress_unweighted(completed, total) == Frac(100 * completed, total)
\* 50 + (completed / total) * 50
phase2_progress(completed, total) == Frac(50 * total + 50 * completed, total)

\* image_tasks: the images of image_map that have a (non-empty) byte payload.
ImageTasks(rn) ==
    LET keys == {x \in DOMAIN rn.image_map :
                    x \in DOMAIN rn.image_bytes_map /\ rn.image_bytes_map[x] # ""}
    IN [x \in keys |-> [xref |-> x, bytes |-> rn.image_bytes_map[x],
                        info |-> rn.image_map[x]]]

\* A variant of the poll's stop that leaves _polling set.
stop_polling_never(w) == w

\* self._polling = False
stop_polling(w) == [w EXCEPT !.cur.polling = FALSE]

\* A variant of _start_phase2 that empties image_map once the tasks are built.
start_phase2_runner_clearing(w, env) ==
    LET tasks == ImageTasks(w.cur)
        w1 == [w EXCEPT !.cur.phase = "phase2_running",
                        !.cur.total_images = Cardinality(DOMAIN tasks),
                        !.cur.p2_starts = @ + 1,
                        !.cur.image_map = EmptyMap]
    IN IF DOMAIN tasks = {}
       THEN stop_polling(on_result(w1, EmptyCandidates, env))
       ELSE [w1 EXCEPT !.p2 = [pc |-> "collect", tasks |-> tasks,
                               pending |-> DOMAIN tasks, result_q |-> <<>>,
                               candidates |-> EmptyCandidates, completed |-> 0,
                               total |-> Cardinality(DOMAIN tasks),
                               failed |-> {}, broke |-> FALSE]]

start_phase2_runner(w, env) ==
    LET tasks == ImageTasks(w.cur)
        w1 == [w EXCEPT !.cur.phase = "phase2_running",
                        !.cur.total_images = Cardinality(DOMAIN tasks),
                        !.cur.p2_starts = @ + 1]
    IN IF DOMAIN tasks = {}
       THEN stop_polling(on_result(w1, EmptyCandidates, env))
       ELSE [w1 EXCEPT !.p2 = [pc |-> "collect", tasks |-> tasks,
                               pending |-> DOMAIN tasks, result_q |-> <<>>,
                               candidates |-> EmptyCandidates, completed |-> 0,
                               total |-> Cardinality(DOMAIN tasks),
                               failed |-> {}, broke |-> FALSE]]

\* A variant of the poll loop without its two return statements.
ReturnsNever(rn, m) == FALSE

\* Whether the poll returns once the message is handled.
Returns(rn, m) ==
    \/ m.type = "error"
    \/ rn.phase = "phase2_running" /\ m.type = "image_analysis_result"

\* A variant of the phase switch that fires at the first merged chunk.
first_chunk_merged(completed_chunks, total_chunks) == completed_chunks >= 1

\* if self.completed_chunks == self.total_chunks
all_chunks_merged(completed_chunks, total_chunks) == completed_chunks = total_chunks

\* The body of the poll loop for one message m taken from the polled runner's queue.
HandleMsg(w, m, env) ==
    LET rn == w.cur
    IN IF m.type = "error"
       THEN stop_polling(runner_on_error(w, m.data))
       ELSE IF rn.phase = "phase1_running"
       THEN IF m.type = "phase1_started"
            THEN [w EXCEPT !.cur.total_chunks = m.data[1],
                           !.cur.total_pages = m.data[2]]
            ELSE IF m.type = "page_chunk_result"
            THEN LET merged == aggregate_chunk_data(
                                   [image_map |-> rn.image_map,
                                    image_bytes_map |-> rn.image_bytes_map],
                                   m.data.map, m.data.bytes)
                     done == rn.completed_chunks + 1
                     w1 == [w EXCEPT !.cur.image_map = merged.image_map,
                                     !.cur.image_bytes_map = merged.image_bytes_map,
                                     !.cur.completed_chunks = done]
                     w2 == on_progress(w1, phase1_progress(done, rn.total_chunks), "scan")
                 IN IF all_chunks_merged(done, rn.total_chunks)
                    THEN start_phase2_runner(w2, env) ELSE w2
            ELSE w
       ELSE IF rn.phase = "phase2_running"
       THEN IF m.type = "progress" THEN on_progress(w, m.data, "classify")
            ELSE IF m.type = "image_analysis_result"
            THEN stop_polling(on_result(w, m.data, env))
            ELSE w
       ELSE w

\* _schedule_poll: up to n messages are taken until the queue is empty or a
\* terminal message makes the poll return.
RECURSIVE Drain(_, _, _)
Drain(w, n, env) ==
    IF n = 0 \/ w.cur.q = <<>> THEN w
    ELSE LET m == Head(w.cur.q)
             w1 == [w EXCEPT !.cur.q = Tail(@)]
             w2 == HandleMsg(w1, m, env)
         IN IF Returns(w1.cur, m) THEN w2 ELSE Drain(w2, n - 1, env)

schedule_poll(w, env) == Drain(w, PollLimit, env)

\* The state a handler leaves: the polled runner stays MainApp's runner unless a
\* callback replaced it, and then only its summary is kept.
Commit(w) ==
    /\ app' = w.app
    /\ runner' = IF w.app.runner = w.cur.id THEN w.cur ELSE w.runner
    /\ p1' = w.p1
    /\ p2' = w.p2
    /\ batch' = w.batch
    /\ seen' = w.seen
    /\ retired' = IF w.app.runner # w.cur.id /\ w.cur.id # 0
                  THEN Append(retired, Summary(w.cur)) ELSE retired

\* One tick of the poll timer (root.after(50, self._schedule_poll)).  The
\* answers of the user and of the save collaborator are read by on_result only.
Poll ==
    /\ runner.polling
    /\ LET quiet == schedule_poll(World, AnyEnv)
       IN IF Len(quiet.cur.delivered) = Len(runner.delivered)
          THEN Commit(quiet)
          ELSE \E env \in Envs : Commit(schedule_poll(World, env))
    /\ UNCHANGED <<cpu, aggVars, ruleVars, progVars>>

\* ------------------------------------------- PdfImageProcessor.start_phase1
PutQ(msgs) == runner' = [runner EXCEPT !.q = @ \o msgs]

\* A variant of the opening messages without the announcement.
phase1_opening_unannounced(page_chunks_, total_pages) == <<Msg("progress", Frac(0, 1))>>

\* ui_queue.put(('phase1_started', ...)); ui_queue.put(('progress', ...))
phase1_opening(page_chunks_, total_pages) ==
    <<Msg("phase1_started", <<Len(page_chunks_), total_pages>>),
      Msg("progress", Frac(0, 1))>>

\* fitz.open and len(doc); then 'phase1_started' and the first 'progress'.
P1Open ==
    /\ p1.pc = "open"
    /\ LET d == runner.doc
           total_pages == Len(Pages(d))
           cs == page_chunks(total_pages, cpu)
       IN IF ~Openable(d)
          THEN /\ PutQ(<<Msg("error", "open")>>)
               /\ p1' = [p1 EXCEPT !.pc = "done"]
          ELSE /\ PutQ(phase1_opening(cs, total_pages))
               /\ p1' = [pc |-> "pool", chunks |-> cs, pending |-> DOMAIN cs]
    /\ UNCHANGED <<cpu, app, p2, retired, batch, seen, aggVars, ruleVars, progVars>>

\* multiprocessing.Pool(...) is created and imap_unordered starts; with no
\* chunk the loop body never runs and the thread ends.
P1Pool ==
    /\ p1.pc = "pool"
    /\ p1' = [p1 EXCEPT !.pc = IF p1.pending = {} THEN "done" ELSE "iter"]
    /\ UNCHANGED <<cpu, app, runner, p2, retired, batch, seen, aggVars, ruleVars, progVars>>

\* The pool or the iteration raises: 'error' and return (lines 229-231).
P1PoolFail ==
    /\ p1.pc = "pool" \/ (p1.pc = "iter" /\ p1.pending # {})
    /\ PutQ(<<Msg("error", "pool")>>)
    /\ p1' = [p1 EXCEPT !.pc = "done"]
    /\ UNCHANGED <<cpu, app, p2, retired, batch, seen, aggVars, ruleVars, progVars>>

\* A variant of start_phase1 that takes a failed chunk for an empty one.
ChunkOutcomeLenient(d, chunk, ok) ==
    [msgs |-> <<Msg("page_chunk_result",
                    IF ok THEN process_page_chunk_ret(d, chunk[1], chunk[2])
                    ELSE [map |-> EmptyMap, bytes |-> EmptyMap])>>,
     goes_on |-> TRUE]

\* What start_phase1 does with the result of a chunk when the scan succeeded
\* (ok) or returned {'__error__': ...}: the messages it puts, and whether it
\* goes on iterating.
ChunkOutcome(d, chunk, ok) ==
    IF ok
    THEN [msgs |-> <<Msg("page_chunk_result", process_page_chunk_ret(d, chunk[1], chunk[2]))>>,
          goes_on |-> TRUE]
    ELSE [msgs |-> <<Msg("error", "scan")>>, goes_on |-> FALSE]

\* imap_unordered yields the result of any chunk still outstanding.
P1Yield ==
    /\ p1.pc = "iter"
    /\ \E i \in p1.pending, ok \in BOOLEAN :
          LET out == ChunkOutcome(runner.doc, p1.chunks[i], ok)
              left == p1.pending \ {i}
          IN /\ runner' = [runner EXCEPT !.q = @ \o out.msgs,
                                         !.chunk_error = @ \/ ~ok]
             /\ p1' = [p1 EXCEPT !.pending = left,
                                 !.pc = IF out.goes_on /\ left # {} THEN "iter"
                                        ELSE "done"]
    /\ UNCHANGED <<cpu, app, p2, retired, batch, seen, aggVars, ruleVars, progVars>>

\* ------------------------------------------- PdfImageProcessor.start_phase2
\* A variant of the classification unit that reports a failed image as a
\* corner image.
analyze_failure_as_corner(task, rules, total_pages, ok) ==
    IF ok THEN analyze_single_image_ret(task, rules, total_pages)
    ELSE [category |-> "Corner", xref |-> task.xref, pages |-> task.info.pages]

\* The payload of the 'image_result' of one classification unit: the result
\* of _analyze_single_image_ret, or None when something in it raised (ok is
\* false, lines 72-73).
analyze_single_image(task, rules, total_pages, ok) ==
    IF ok THEN analyze_single_image_ret(task, rules, total_pages)
    ELSE NoResult

\* A worker process (_analyze_single_image) puts its one 'image_result'.
\* p2.failed keeps the images whose unit failed (history).  A failing unit
\* puts what a unit without a match puts, so failures are drawn for the
\* first run of a session only: later runs would repeat its states.
P2Worker ==
    /\ p2.pc \in {"collect", "join"}
    /\ \E x \in p2.pending, ok \in BOOLEAN :
          /\ ok \/ app.runner = 1
          /\ p2' = [p2 EXCEPT !.pending = @ \ {x},
                           !.failed = IF ok THEN @ ELSE @ \cup {x},
                           !.result_q = Append(@,
                               analyze_single_image(p2.tasks[x], runner.rules,
                                                    runner.total_pages, ok))]
    /\ UNCHANGED <<cpu, app, runner, p1, retired, batch, seen, aggVars, ruleVars, progVars>>

\* A variant of the collecting loop that files a result under every category.
AddCandidateAll(candidates, result) ==
    IF result = NoResult THEN candidates
    ELSE [c \in Categories |->
             Append(candidates[c], [xref |-> result.xref, pages |-> result.pages])]

\* candidates[category].append({'xref': xref, 'pages': pages}) when result is not None.
AddCandidate(candidates, result) ==
    IF result = NoResult THEN candidates
    ELSE [candidates EXCEPT ![result.category] =
             Append(@, [xref |-> result.xref, pages |-> result.pages])]

\* One pass of the collecting loop: an 'image_result' is taken from result_q.
P2Get ==
    /\ p2.pc = "collect"
    /\ p2.result_q # <<>>
    /\ LET result == Head(p2.result_q)
           completed == p2.completed + 1
           total == p2.total
       IN /\ p2' = [p2 EXCEPT !.result_q = Tail(@),
                              !.completed = completed,
                              !.candidates = AddCandidate(@, result),
                              !.pc = IF completed < total THEN "collect" ELSE "join"]
          /\ PutQ(<<Msg("progress", phase2_progress(completed, total))>>)
    /\ UNCHANGED <<cpu, app, p1, retired, batch, seen, aggVars, ruleVars, progVars>>

\* result_q.get() raises: 'error' is put and the loop is left (lines 259-261).
P2Fail ==
    /\ p2.pc = "collect"
    /\ PutQ(<<Msg("error", "analysis")>>)
    /\ p2' = [p2 EXCEPT !.pc = "join", !.broke = TRUE]
    /\ UNCHANGED <<cpu, app, p1, retired, batch, seen, aggVars, ruleVars, progVars>>

\* Every process is joined, then 'image_analysis_result' is put.
P2Finish ==
    /\ p2.pc = "join"
    /\ p2.pending = {}
    /\ PutQ(<<Msg("image_analysis_result", p2.candidates)>>)
    /\ p2' = [p2 EXCEPT !.pc = "done"]
    /\ UNCHANGED <<cpu, app, p1, retired, batch, seen, aggVars, ruleVars, progVars>>

\* ------------------------------------------------------ starting a batch
RECURSIVE SeqsOver(_, _)
SeqsOver(S, n) ==
    IF n = 0 THEN {<<>>}
    ELSE LET shorter == SeqsOver(S, n - 1)
         IN shorter \cup {Append(f, x) : f \in {g \in shorter : Len(g) = n - 1},
                                         x \in S}
\* The file list holds distinct paths (add_files, _on_drop).
FileLists == {f \in SeqsOver(Docs, MaxRuns) :
                 f # <<>> /\ \A i, j \in DOMAIN f : i # j => f[i] # f[j]}

\* start_interactive: the buttons are enabled only while is_running is false
\* (_set_running, _on_list_select).
StartInteractive ==
    /\ ~app.is_running
    /\ \E files \in FileLists :
          /\ app.runner + Len(files) <= MaxRuns
          /\ LET w0 == [World EXCEPT !.app.batch_mode = "interactive",
                                     !.app.batch_queue = files,
                                     !.app.progress_ctl = ctl_start(@, "prepare"),
                                     !.app.current_run_id =
                                         ctl_start(app.progress_ctl, "prepare").run_id,
                                     !.batch = [files |-> files, mode |-> "interactive",
                                                ran |-> <<>>, finals |-> <<>>,
                                                overlap |-> runner.polling]]
             IN Commit(interactive_next(set_running(w0, TRUE)))
    /\ UNCHANGED <<cpu, aggVars, ruleVars, progVars>>

\* start_auto with a valid output directory chosen.
StartAuto ==
    /\ ~app.is_running
    /\ \E files \in FileLists :
          /\ app.runner + Len(files) <= MaxRuns
          /\ LET w0 == [World EXCEPT !.app.output_dir = "out",
                                     !.app.batch_mode = "auto",
                                     !.app.batch_queue = files,
                                     !.app.auto_report = <<>>,
                                     !.app.progress_ctl = ctl_start(@, "prepare"),
                                     !.app.current_run_id =
                                         ctl_start(app.progress_ctl, "prepare").run_id,
                                     !.batch = [files |-> files, mode |-> "auto",
                                                ran |-> <<>>, finals |-> <<>>,
                                                overlap |-> runner.polling]]
             IN Commit(auto_next(set_running(w0, TRUE)))
    /\ UNCHANGED <<cpu, aggVars, ruleVars, progVars>>

\* ------------------------------------------------------------ the pipeline
\* The rule check boxes as load_config leaves them.
RuleChoices ==
    { [qr |-> TRUE, repeated |-> FALSE, corners |-> FALSE],
      [qr |-> TRUE, repeated |-> TRUE, corners |-> TRUE],
      [qr |-> FALSE, repeated |-> FALSE, corners |-> TRUE] }

AppInit(rules) ==
    [rules |-> rules, is_running |-> FALSE, batch_mode |-> None, batch_queue |-> <<>>,
     output_dir |-> None, auto_report |-> <<>>, processor |-> None, runner |-> 0,
     progress_ctl |-> NewController, current_run_id |-> 0]

AggIdle ==
    /\ chunks = <<>>
    /\ arrival = <<>>
    /\ reg = <<>>
    /\ sdoc = <<>>
RulesIdle ==
    /\ ctask = None
    /\ cres = None
ProgIdle ==
    /\ pctl = None
    /\ pcall = None
PipeInit(c, rules) ==
    /\ cpu = c
    /\ app = AppInit(rules)
    /\ runner = NoRunner
    /\ p1 = NoThread
    /\ p2 = NewP2
    /\ retired = <<>>
    /\ batch = [files |-> <<>>, mode |-> None, ran |-> <<>>, finals |-> <<>>,
                overlap |-> FALSE]
    /\ seen = [d \in Docs |-> {}]
PipeIdle == PipeInit(1, [qr |-> TRUE, repeated |-> FALSE, corners |-> FALSE])

Init ==
    /\ \E c \in {1, MaxCpu}, rules \in RuleChoices : PipeInit(c, rules)
    /\ AggIdle
    /\ RulesIdle
    /\ ProgIdle

Next ==
    \/ StartInteractive
    \/ StartAuto
    \/ Poll
    \/ P1Open
    \/ P1Pool
    \/ P1PoolFail
    \/ P1Yield
    \/ P2Worker
    \/ P2Get
    \/ P2Fail
    \/ P2Finish

Spec == Init /\ [][Next]_vars

\* ---------------------------------------------------- aggregation harness
(* _aggregate_chunk_data applied to the chunk slices of one document in an  *)
(* arbitrary arrival order.  Chunk k scans page k-1; a slice holds, for     *)
(* each image found on the page, the page index, one placement and the      *)
(* bytes the chunk's worker extracted.  Each worker opens the file by path  *)
(* for itself (line 93), so the bytes of one xref are drawn per chunk.      *)
AggRefs == {1, 2}
AggPlacement(k) == [page_num |-> k - 1, bbox |-> <<0, 0, 50, 50>>, page_size |-> PageSize]
ChunkSlices(k) ==
    UNION {{[map |-> [x \in S |-> [pages |-> {k - 1}, placements |-> <<AggPlacement(k)>>]],
             bytes |-> b] : b \in [S -> 1..NPayloads]} : S \in SUBSET AggRefs}

AggInit ==
    /\ chunks \in {c \in [1..NChunks -> UNION {ChunkSlices(k) : k \in 1..NChunks}] :
                      \A k \in 1..NChunks : c[k] \in ChunkSlices(k)}
    /\ arrival = <<>>
    /\ reg = EmptyRegistry
    /\ sdoc = <<>>
    /\ PipeIdle
    /\ RulesIdle
    /\ ProgIdle

\* A 'page_chunk_result' of a chunk not merged yet is taken from the queue.
Merge ==
    /\ \E i \in (DOMAIN chunks) \ Range(arrival) :
          /\ arrival' = Append(arrival, i)
          /\ reg' = aggregate_chunk_data(reg, chunks[i].map, chunks[i].bytes)
    /\ UNCHANGED <<chunks, sdoc, pipeVars, ruleVars, progVars>>

\* -------------------------------------------------------- scanner harness
(* _process_page_chunk_ret applied to the page chunks start_phase1 builds   *)
(* for a drawn document (each page shows a set of the sized images, and at  *)
(* most one placement of the document raises when it is extracted), the     *)
(* results merged by _aggregate_chunk_data in any order.                    *)
RECURSIVE SortedSeq(_)
SortedSeq(S) ==
    IF S = {} THEN <<>>
    ELSE LET least == CHOOSE x \in S : \A y \in S : x <= y
         IN <<least>> \o SortedSeq(S \ {least})

ScanInit ==
    /\ \E n \in 1..DrawnPages, c \in 1..MaxCpu :
         /\ PipeInit(c, [qr |-> TRUE, repeated |-> FALSE, corners |-> FALSE])
         /\ \E shown \in [1..n -> SUBSET ScanRefs] :
              \E raises \in {<<0, 0>>} \cup
                            UNION {{<<p, x>> : x \in shown[p]} : p \in 1..n} :
                 sdoc = [p \in 1..n |->
                           [size |-> PageSize,
                            imgs |-> [i \in 1..Cardinality(shown[p]) |->
                                         [Placement(SortedSeq(shown[p])[i],
                                                    <<0, 0, 50, 50>>)
                                             EXCEPT !.broken =
                                                 raises = <<p, SortedSeq(shown[p])[i]>>]]]]
    /\ chunks = <<>>
    /\ arrival = <<>>
    /\ reg = EmptyRegistry
    /\ RulesIdle
    /\ ProgIdle

\* The pool worker of the next page chunk returns its result.
Scan ==
    /\ LET cs == page_chunks(Len(sdoc), cpu)
           k == Len(chunks) + 1
       IN /\ k <= Len(cs)
          /\ chunks' = Append(chunks, process_page_chunk_ret("drawn", cs[k][1], cs[k][2]))
    /\ UNCHANGED <<arrival, reg, sdoc, pipeVars, ruleVars, progVars>>

ScanNext ==
    \/ Scan
    \/ Merge
SpecScan == ScanInit /\ [][ScanNext]_vars

\* ------------------------------------------------------- chunking harness
(* start_phase1 on a document of 1..PartPages pages without images, on a    *)
(* machine of 1..PartCpu processors: one chunk result per page chunk.       *)
ChunkInit ==
    /\ \E n \in 1..PartPages, c \in 1..PartCpu :
         /\ PipeInit(c, [qr |-> TRUE, repeated |-> FALSE, corners |-> FALSE])
         /\ sdoc = [p \in 1..n |-> [size |-> PageSize, imgs |-> <<>>]]
    /\ chunks = <<>>
    /\ arrival = <<>>
    /\ reg = EmptyRegistry
    /\ RulesIdle
    /\ ProgIdle
SpecChunks == ChunkInit /\ [][ScanNext]_vars

AggNext == Merge
SpecAgg == AggInit /\ [][AggNext]_vars

\* ----------------------------------------------------- classifier harness
(* _analyze_single_image_ret applied to one task of a document of           *)
(* total_pages pages: the image lies on the pages of a non-empty set, with  *)
(* one placement per page.                                                  *)
(* Long documents: the image lies on the first k pages, in the same box.   *)
(* Boxes on a 600x800 page: in the top-left corner, in the top-right       *)
(* corner, mid-page, ending exactly on the left margin line (x1 = 150), and *)
(* in the top-right corner but reaching beyond the right page edge.         *)
Boxes == {<<0, 0, 50, 50>>, <<560, 10, 590, 40>>, <<200, 300, 400, 500>>,
          <<100, 0, 150, 100>>, <<560, 10, 650, 40>>}
DrawnPageSets(total_pages) ==
    IF total_pages <= RulePages THEN (SUBSET (0..(total_pages - 1))) \ {{}}
    ELSE {0..(k - 1) : k \in 1..total_pages}
DrawnBoxes(total_pages, pages) ==
    IF total_pages <= RulePages THEN [pages -> Boxes]
    ELSE {[p \in pages |-> b] : b \in Boxes}
RulesInit ==
    /\ \E total_pages \in 1..WidePages, bytes \in Payloads, rules \in RuleConfigs :
         \E pages \in DrawnPageSets(total_pages) :
           \E box \in DrawnBoxes(total_pages, pages) :
             LET order == SortedSeq(pages)
                 placements == [i \in 1..Cardinality(pages) |->
                                   [page_num |-> order[i], bbox |-> box[order[i]],
                                    page_size |-> PageSize]]
             IN ctask = [task |-> [xref |-> 1, bytes |-> bytes,
                                   info |-> [pages |-> pages, placements |-> placements]],
                         rules |-> rules, total_pages |-> total_pages]
    /\ cres = [done |-> FALSE, result |-> NoResult]
    /\ PipeIdle
    /\ AggIdle
    /\ ProgIdle

Analyze ==
    /\ ~cres.done
    /\ cres' = [done |-> TRUE,
                result |-> analyze_single_image_ret(ctask.task, ctask.rules,
                                                    ctask.total_pages)]
    /\ UNCHANGED <<ctask, pipeVars, aggVars, progVars>>

RulesNext == Analyze
SpecRules == RulesInit /\ [][RulesNext]_vars

\* ------------------------------------------------------- progress harness
(* A ProgressController driven by start, update (any target, tagged with    *)
(* any run id or with none) and the animation timer.                        *)
Targets == {0 - 50, 500, 1000, 1200}
Statuses == {"scan", "classify"}
Call(op, stale) == [op |-> op, stale |-> stale, before |-> pctl]

ProgInit ==
    /\ pctl = NewController
    /\ pcall = [op |-> "init", stale |-> FALSE, before |-> NewController]
    /\ PipeIdle
    /\ AggIdle
    /\ RulesIdle

PStart ==
    /\ pctl.run_id < MaxTokens
    /\ pctl' = ctl_start(pctl, "prepare")
    /\ pcall' = Call("start", FALSE)
    /\ UNCHANGED <<pipeVars, aggVars, ruleVars>>

PUpdate ==
    /\ \E target \in Targets, status \in Statuses, tagged \in BOOLEAN,
          run_id \in 0..MaxTokens :
          /\ pctl' = ctl_update(pctl, target, status, tagged, run_id)
          /\ pcall' = Call("update", tagged /\ run_id # pctl.run_id)
    /\ UNCHANGED <<pipeVars, aggVars, ruleVars>>

\* The timer armed by _kick fires.
PStep ==
    /\ pctl.anim_job
    /\ pctl' = ctl_step(pctl)
    /\ pcall' = Call("step", FALSE)
    /\ UNCHANGED <<pipeVars, aggVars, ruleVars>>

ProgNext ==
    \/ PStart
    \/ PUpdate
    \/ PStep
SpecProgress == ProgInit /\ [][ProgNext]_vars

\* ================================================================ properties
\* ------------------------------------------------------------------------ C1
RECURSIVE MergeInOrder(_, _)
MergeInOrder(r, k) ==
    IF k > NChunks THEN r
    ELSE MergeInOrder(aggregate_chunk_data(r, chunks[k].map, chunks[k].bytes), k + 1)

\* C1: once every chunk slice of the document is merged, the registry is the
\* one the merge in page order yields, whatever the arrival order was: same
\* ImageRefs, same page sets, same ordered placement lists, same payloads.
AggregationOrderIndependent ==
    Len(arrival) = NChunks => reg = MergeInOrder(EmptyRegistry, 1)

\* ------------------------------------------------------------------------ C2
\* The payload of x in the first merged chunk that carried x.
FirstPayload(x) ==
    LET carriers == {i \in DOMAIN arrival : x \in DOMAIN chunks[arrival[i]].bytes}
        first == CHOOSE i \in carriers : \A j \in carriers : i <= j
    IN chunks[arrival[first]].bytes[x]

\* C2: after any sequence of merges, the payload the registry stores for an
\* ImageRef is the one of the first merged chunk that carried that ImageRef.
PayloadNeverOverwritten ==
    \A x \in DOMAIN reg.image_bytes_map : reg.image_bytes_map[x] = FirstPayload(x)

\* ------------------------------------------------------------------------ C3
IsPrefix(s, t) == Len(s) <= Len(t) /\ \A i \in DOMAIN s : s[i] = t[i]
Rest(s, t) == SubSeq(t, Len(s) + 1, Len(t))

\* C3: in both modes the pipelines a batch has started are the first documents
\* of its queue, in queue order and once each, the queue holds the documents
\* still to run, and a run that has delivered its terminal outcome (a failure
\* included) is followed by the run of the next document unless it was the
\* last of the queue.
BatchContinues ==
    /\ IsPrefix(batch.ran, batch.files)
    /\ \A i, j \in DOMAIN batch.ran : i # j => batch.ran[i] # batch.ran[j]
    /\ app.is_running => app.batch_queue = Rest(batch.ran, batch.files)
    /\ app.is_running => app.batch_mode = batch.mode
    /\ batch.ran # <<>> => runner.doc = batch.ran[Len(batch.ran)]
    /\ (runner.id # 0 /\ Outcome(runner) # None) =>
          (batch.ran = batch.files /\ ~app.is_running)

\* The first document of a batch of two could not be opened and the pipeline of
\* the second one has been started.
BatchContinuesWitness ==
    /\ Len(batch.files) = 2
    /\ batch.files[1] = "bad"
    /\ batch.ran = batch.files
    /\ retired # <<>>
    /\ retired[Len(retired)].doc = "bad"
    /\ retired[Len(retired)].outcome = "error"
    /\ runner.doc = batch.files[2]
    /\ runner.polling

\* ------------------------------------------------------------------------ C4
\* C4: when an automatic batch over N documents has finished, its run report
\* holds N entries, one per document, failed documents included.
AutoReportComplete ==
    (batch.mode = "auto" /\ ~app.is_running) =>
        Len(app.auto_report) = Len(batch.files)

\* ------------------------------------------------------------------------ C5
\* Nothing is left that could still put a message on the runner's queue.
Quiescent ==
    /\ p1.pc = "done"
    /\ p2.pc \in {"idle", "done"}
    /\ runner.q = <<>>

\* C5: a run on a document that opens never comes to rest without a terminal
\* outcome: once its threads have ended and its queue is drained, on_result
\* or on_error has been called, whatever the page and image counts.
RunDeliversOutcome ==
    (runner.id # 0 /\ Openable(runner.doc) /\ Quiescent) => Outcome(runner) # None

\* ------------------------------------------------------------------------ C6
\* C6: a run calls on_result and on_error at most once together, and no
\* callback at all after that call; a runner that has made it polls no more.
AtMostOneTerminal ==
    /\ Cardinality(Terminals(runner)) <= 1
    /\ AfterTerminal(runner) = 0
    /\ Terminals(runner) # {} => ~runner.polling
    /\ \A i \in DOMAIN retired :
          /\ retired[i].terminals <= 1
          /\ retired[i].after = 0
          /\ ~retired[i].polling

\* The run has ended with on_error and a message its worker put later lies
\* on its queue.
AtMostOneTerminalWitness ==
    /\ Outcome(runner) = "error"
    /\ runner.q # <<>>
    /\ runner.q[1].type = "image_analysis_result"

\* ------------------------------------------------------------------------ C7
Order == <<"QR", "Repeated", "Corner">>
\* The rules of Order that are active in the RuleConfig and matched by the image.
Hits ==
    {i \in 1..3 :
        \/ i = 1 /\ ctask.rules.qr /\ is_qr_code(ctask.task.bytes)
        \/ i = 2 /\ ctask.rules.repeated
                 /\ RepeatedMatch(ctask.task.info.pages, ctask.total_pages)
        \/ i = 3 /\ ctask.rules.corners /\ CornerMatch(ctask.task.info.placements)}

\* C7: the classifier returns the category of the first rule, in the order QR,
\* Repeated, Corner, that is active and matched, with the task's xref and
\* pages, and None when there is none; so QR wins over any other setting and
\* Repeated wins over Corner.
FirstMatch ==
    cres.done =>
        /\ Hits = {} => cres.result = NoResult
        /\ Hits # {} =>
              cres.result =
                 [category |-> Order[CHOOSE i \in Hits : \A j \in Hits : i <= j],
                  xref |-> ctask.task.xref, pages |-> ctask.task.info.pages]
        /\ 1 \in Hits => cres.result.category = "QR"
        /\ ({2, 3} \subseteq Hits /\ 1 \notin Hits) => cres.result.category = "Repeated"

\* An image that matches both the repetition and the corner rule, both active,
\* has been classified.
FirstMatchWitness ==
    /\ cres.done
    /\ Hits = {2, 3}
    /\ cres.result.category = "Repeated"

\* ------------------------------------------------------------------------ C8
\* How often xref x is listed in a CandidateSet, over all categories.
Listed(candidates, x) ==
    LET n(c) == Cardinality({i \in DOMAIN candidates[c] : candidates[c][i].xref = x})
    IN n("QR") + n("Repeated") + n("Corner")

\* C8: in every CandidateSet a run delivers, each ImageRef is listed at most
\* once over all categories.
ListedOnce ==
    \A d \in Docs : \A candidates \in seen[d] :
        \A x \in CandidateXrefs(candidates) : Listed(candidates, x) = 1

\* A run has delivered a CandidateSet that lists two ImageRefs.
ListedOnceWitness ==
    \E candidates \in seen["marks"] : Cardinality(CandidateXrefs(candidates)) = 2

\* ------------------------------------------------------------------------ C9
\* C9: all the runs on one document (the RuleConfig is the same for all of
\* them) deliver the same CandidateSet, ordered lists included.
SameCandidateSets == \A d \in Docs : Cardinality(seen[d]) <= 1

\* ----------------------------------------------------------------------- C10
\* C10: in a run one of whose chunks reported a fatal error, phase 2 is never
\* started and on_result never called; the error is on the queue or has been
\* delivered through on_error, which ends the run.
ScanFailureIsTerminal ==
    /\ runner.chunk_error =>
          /\ runner.p2_starts = 0
          /\ p2.pc = "idle"
          /\ runner.delivered = <<>>
          /\ \/ \E i \in DOMAIN runner.q : runner.q[i].type = "error"
             \/ Outcome(runner) = "error" /\ ~runner.polling
    /\ \A i \in DOMAIN retired :
          retired[i].chunk_error =>
              /\ retired[i].p2_starts = 0
              /\ retired[i].results = 0
              /\ retired[i].outcome = "error"

\* A chunk failed after another chunk had been merged, and the run has ended
\* with on_error.
ScanFailureIsTerminalWitness ==
    /\ runner.chunk_error
    /\ runner.completed_chunks >= 1
    /\ Outcome(runner) = "error"

\* ----------------------------------------------------------------------- C11
\* The images of category c when the images of p2.failed match no rule.
ExpectedRefs(c) ==
    {x \in (DOMAIN p2.tasks) \ p2.failed :
        analyze_single_image_ret(p2.tasks[x], runner.rules, runner.total_pages).category = c}

\* C11: a failed classification unit is counted as completed and never makes
\* the run fail (only a failure of the collecting loop itself does), and the
\* CandidateSet the run delivers lists every other image under the category
\* its rules give it and the failed images under none.
ClassificationFailureIsolated ==
    /\ (p2.pc \in {"join", "done"} /\ ~p2.broke) => p2.completed = p2.total
    /\ (runner.p2_starts > 0 /\ Outcome(runner) = "error") => p2.broke
    /\ (runner.delivered # <<>> /\ p2.pc = "done") =>
          \A c \in Categories :
             /\ {runner.delivered[1][c][i].xref : i \in DOMAIN runner.delivered[1][c]}
                   = ExpectedRefs(c)
             /\ \A i \in DOMAIN runner.delivered[1][c] :
                   runner.delivered[1][c][i].pages
                      = p2.tasks[runner.delivered[1][c][i].xref].info.pages

\* The unit of one image failed, and the run has delivered a CandidateSet that
\* lists the other image.
ClassificationFailureIsolatedWitness ==
    /\ Cardinality(p2.failed) = 1
    /\ Outcome(runner) = "result"
    /\ CandidateXrefs(runner.delivered[1]) # {}

\* ----------------------------------------------------------------------- C12
\* The sized images the claim calls degenerate.
TinyRefs ==
    {x \in ScanRefs :
        LET w == SizedImages[x - 10].w
            h == SizedImages[x - 10].h
        IN (IF w <= h THEN w ELSE h) <= 8 \/ (w <= 6 /\ h <= 6) \/ w * h <= 64}

\* C12: an image of minimum dimension <= 8, of both dimensions <= 6 or of
\* area <= 64 is in no chunk result, hence not in the registry and not among
\* the classification tasks, for every drawn document and chunking.
DegenerateNeverScanned ==
    /\ \A k \in DOMAIN chunks :
          /\ (DOMAIN chunks[k].map) \cap TinyRefs = {}
          /\ (DOMAIN chunks[k].bytes) \cap TinyRefs = {}
    /\ (DOMAIN reg.image_map) \cap TinyRefs = {}
    /\ (DOMAIN reg.image_bytes_map) \cap TinyRefs = {}
    /\ (DOMAIN ImageTasks(reg)) \cap TinyRefs = {}

\* A page that shows the 8x100 image next to the 9x9 image has been scanned
\* and merged: the registry holds the 9x9 image.
DegenerateNeverScannedWitness ==
    /\ \E p \in DOMAIN sdoc :
          {11, 12} \subseteq {sdoc[p].imgs[i].xref : i \in DOMAIN sdoc[p].imgs}
    /\ chunks # <<>>
    /\ Len(arrival) = Len(chunks)
    /\ 11 \in DOMAIN ImageTasks(reg)

\* ----------------------------------------------------------------------- C13
\* C13: with the repeated rule active and no QR match, the image is classified
\* Repeated exactly when the document has more than one page and
\* 10 * |pages| >= 7 * total_pages; never in a single-page document, and
\* always when it lies on 8 of 10 pages.
RepeatedRule ==
    (/\ cres.done
     /\ ctask.rules.repeated
     /\ ~(ctask.rules.qr /\ is_qr_code(ctask.task.bytes))) =>
        /\ cres.result.category = "Repeated" <=>
              (/\ ctask.total_pages > 1
               /\ 10 * Cardinality(ctask.task.info.pages) >= 7 * ctask.total_pages)
        /\ ctask.total_pages = 1 => cres.result.category # "Repeated"
        /\ (ctask.total_pages = 10 /\ Cardinality(ctask.task.info.pages) = 8) =>
              cres.result.category = "Repeated"

\* An image on 7 of 10 pages, no QR match, has been classified Repeated.
RepeatedRuleWitness ==
    /\ cres.done
    /\ ctask.rules.repeated
    /\ ~ctask.rules.qr
    /\ ctask.total_pages = 10
    /\ Cardinality(ctask.task.info.pages) = 7
    /\ cres.result.category = "Repeated"

\* ----------------------------------------------------------------------- C14
\* C14: an image narrower or lower than 30 px, or whose width/height ratio is
\* not strictly between 0.9 and 1.1, is never classified QR, barcode or not;
\* an image that cannot be decoded is no QR match and is classified by the
\* other rules as usual.
QrGating ==
    cres.done =>
       LET im == Decoded(ctask.task.bytes)
       IN /\ (im.ok /\ (im.w < 30 \/ im.h < 30)) => cres.result.category # "QR"
          /\ (im.ok /\ ~(9 * im.h < 10 * im.w /\ 10 * im.w < 11 * im.h)) =>
                cres.result.category # "QR"
          /\ ~im.ok =>
                cres.result = analyze_single_image_ret(
                                  ctask.task, [ctask.rules EXCEPT !.qr = FALSE],
                                  ctask.total_pages)

\* A 20x20 image that carries a barcode has been classified with the QR rule
\* active, and not as QR.
QrGatingWitness ==
    /\ cres.done
    /\ ctask.rules.qr
    /\ ctask.task.bytes = "small_code"
    /\ cres.result.category # "QR"

\* ----------------------------------------------------------------------- C15
\* The corners rule is active and neither the QR nor the repetition rule
\* gives the image a category.
CornerDecides ==
    /\ cres.done
    /\ ctask.rules.corners
    /\ Hits \cap {1, 2} = {}

\* The placement's box lies within the closed top-left margin rectangle
\* [0, w/4] x [0, 3h/20] or the closed top-right one [3w/4, w] x [0, 3h/20].
WithinMargin(pl) ==
    LET w == pl.page_size[1]
        h == pl.page_size[2]
        x0 == pl.bbox[1]
        y0 == pl.bbox[2]
        x1 == pl.bbox[3]
        y1 == pl.bbox[4]
    IN \/ (x0 >= 0 /\ y0 >= 0 /\ 4 * x1 <= w /\ 20 * y1 <= 3 * h)
       \/ (4 * x0 >= 3 * w /\ x1 <= w /\ y0 >= 0 /\ 20 * y1 <= 3 * h)

\* The placement's right and lower edges lie strictly inside the left and top
\* margins, or its left edge lies strictly right of the right margin line and
\* its lower edge strictly inside the top margin.
EdgesInMargin(pl) ==
    LET w == pl.page_size[1]
        h == pl.page_size[2]
        x0 == pl.bbox[1]
        x1 == pl.bbox[3]
        y1 == pl.bbox[4]
    IN \/ (4 * x1 < w /\ 20 * y1 < 3 * h)
       \/ (4 * x0 > 3 * w /\ 20 * y1 < 3 * h)

\* C15 as stated: when the corner rule decides, the image is classified Corner
\* exactly when one of its placements lies entirely within a closed margin
\* rectangle.
CornerRuleWithin ==
    CornerDecides =>
        (cres.result.category = "Corner" <=>
            \E i \in DOMAIN ctask.task.info.placements :
                WithinMargin(ctask.task.info.placements[i]))

\* C15 (amended): when the corner rule decides, the image is classified Corner
\* exactly when one of its placements has x1 < 0.25 * page_w and
\* y1 < 0.15 * page_h, or x0 > 0.75 * page_w and y1 < 0.15 * page_h; x0, y0
\* and, in the right corner, x1 are not otherwise constrained.
CornerRule ==
    CornerDecides =>
        (cres.result.category = "Corner" <=>
            \E i \in DOMAIN ctask.task.info.placements :
                EdgesInMargin(ctask.task.info.placements[i]))

\* An image whose only placement starts in the top-right corner and reaches
\* beyond the right page edge has been classified Corner.
CornerRuleWitness ==
    /\ CornerDecides
    /\ \A i \in DOMAIN ctask.task.info.placements :
          ctask.task.info.placements[i].bbox = <<560, 10, 650, 40>>
    /\ cres.result.category = "Corner"

\* ----------------------------------------------------------------------- C16
\* The RunTokens of the runs started so far, in start order.
Tokens == [i \in DOMAIN retired |-> retired[i].token] \o <<runner.token>>

\* C16: every pipeline start, one per document, records a RunToken greater
\* than every RunToken recorded before, and the run begins with an empty
\* registry and zeroed counters.
FreshTokenPerRun ==
    runner.id # 0 =>
        /\ \A i, j \in DOMAIN Tokens : i < j => Tokens[i] < Tokens[j]
        /\ runner.cb = <<>> /\ runner.completed_chunks = 0 =>
              /\ runner.image_map = EmptyMap
              /\ runner.image_bytes_map = EmptyMap
              /\ runner.completed_images = 0

\* ----------------------------------------------------------------------- C17
\* C17: an update tagged with a run id other than the controller's changes
\* nothing: _run_id, _target, _status, the displayed value and the animation
\* job are what they were before the call.
StaleProgressIgnored ==
    (pcall.op = "update" /\ pcall.stale) => pctl = pcall.before

\* The controller is in its second run, halfway through an animation towards
\* a target of that run, and the last call was a stale update.
StaleProgressIgnoredWitness ==
    /\ pcall.op = "update"
    /\ pcall.stale
    /\ pctl.run_id = 2
    /\ pctl.target = 500
    /\ pctl.anim_job
    /\ pctl.value > 0

\* ----------------------------------------------------------------------- C18
\* The chunks merged so far that carry ImageRef x.
Carriers(x) == {i \in Range(arrival) : x \in DOMAIN chunks[i].map}

\* C18: after any sequence of chunk merges into a registry that started
\* empty, the page-index set the registry holds for an ImageRef is the union
\* of the page-index sets of the merged chunks that carry it, and the
\* registry (image_map and image_bytes_map) holds no ImageRef that no merged
\* chunk carried.
RegistryPagesAreUnion ==
    /\ DOMAIN reg.image_map = {x \in AggRefs \cup ScanRefs : Carriers(x) # {}}
    /\ DOMAIN reg.image_bytes_map \subseteq DOMAIN reg.image_map
    /\ \A x \in DOMAIN reg.image_map :
          reg.image_map[x].pages = UNION {chunks[i].map[x].pages : i \in Carriers(x)}

\* Every chunk is merged and some ImageRef was carried by two of them, on
\* different pages.
RegistryPagesAreUnionWitness ==
    /\ Len(arrival) = NChunks
    /\ \E x \in DOMAIN reg.image_map :
          /\ Cardinality(Carriers(x)) >= 2
          /\ Cardinality(reg.image_map[x].pages) >= 2

\* ----------------------------------------------------------------------- C19
\* The progress values the held runner has delivered to on_progress, in order.
IsProgress(c) == c.kind = "progress"
ProgressValues == [i \in DOMAIN SelectSeq(runner.cb, IsProgress) |->
                      SelectSeq(runner.cb, IsProgress)[i].value]
FirstResult == CHOOSE i \in DOMAIN runner.cb :
                   /\ runner.cb[i].kind = "result"
                   /\ \A j \in 1..(i - 1) : runner.cb[j].kind # "result"

\* C19: every progress value a run delivers to on_progress lies in [0, 100];
\* the j-th value is 50*j/total_chunks while chunks are merged (at most 50),
\* the value after the i-th completed classification unit is
\* 50 + 50*i/total_images; the values of one run never decrease; and a run
\* that classified at least one image delivers 100 before its result.
ProgressValuesExact ==
    runner # NoRunner =>
      LET v == ProgressValues
          tc == runner.total_chunks
          ti == runner.total_images
      IN /\ \A k \in DOMAIN v :
               /\ v[k].den > 0
               /\ 0 <= v[k].num /\ v[k].num <= 100 * v[k].den
               /\ k <= tc => /\ v[k].num * tc = 50 * k * v[k].den
                             /\ v[k].num <= 50 * v[k].den
               /\ k > tc => /\ ti > 0
                            /\ v[k].num * ti = (50 * ti + 50 * (k - tc)) * v[k].den
               /\ k > 1 => v[k - 1].num * v[k].den <= v[k].num * v[k - 1].den
         /\ Len(v) >= runner.completed_chunks
         /\ Len(v) <= tc + ti
         /\ (ti > 0 /\ \E i \in DOMAIN runner.cb : runner.cb[i].kind = "result") =>
               \E j \in 1..(FirstResult - 1) :
                   /\ runner.cb[j].kind = "progress"
                   /\ runner.cb[j].value.num = 100 * runner.cb[j].value.den

\* A run of two chunks and two classified images has delivered its result:
\* the values were 25, 50, 75 and 100.
ProgressValuesExactWitness ==
    /\ runner # NoRunner
    /\ runner.total_chunks = 2
    /\ runner.total_images = 2
    /\ Len(ProgressValues) = 4
    /\ \E i \in DOMAIN runner.cb : runner.cb[i].kind = "result"

\* ----------------------------------------------------------------------- C20
\* The page indices of a half-open range (start, end).
Span(c) == {p \in 0..PartPages + 1 : c[1] <= p /\ p < c[2]}

\* C20: for a page count P >= 1 and c >= 1 processors, with
\* workers = max(1, min(c, 4)), the page chunks start_phase1 builds are
\* non-empty half-open ranges of at most ceil(P / workers) pages, pairwise
\* disjoint, with union [0, P); there are at most workers (at most 4) of
\* them, and the chunk results produced never exceed the count announced,
\* which they reach on success.
ChunkPartition ==
    Len(sdoc) >= 1 =>
      LET P == Len(sdoc)
          workers == num_workers(cpu)
          cs == page_chunks(P, cpu)
      IN /\ \A k \in DOMAIN cs :
               /\ cs[k][1] < cs[k][2]
               /\ cs[k][2] - cs[k][1] <= CeilDiv(P, workers)
               /\ \A j \in DOMAIN cs : j # k => Span(cs[j]) \cap Span(cs[k]) = {}
         /\ UNION {Span(cs[k]) : k \in DOMAIN cs} = 0..(P - 1)
         /\ Len(cs) >= 1
         /\ Len(cs) <= workers
         /\ workers <= 4
         /\ Len(chunks) <= Len(cs)
         /\ ~ENABLED Scan => Len(chunks) = Len(cs)

\* Nine pages on five processors: three chunks of three pages, all produced
\* and merged.
ChunkPartitionWitness ==
    /\ Len(sdoc) = 9
    /\ cpu = 5
    /\ Len(chunks) = 3
    /\ Len(arrival) = 3

\* ----------------------------------------------------------------------- C21
\* The runs that are polling: replaced ones and the one MainApp holds.
ActiveRuns ==
    {retired[i].id : i \in {j \in DOMAIN retired : retired[j].polling}}
        \cup (IF runner.polling THEN {runner.id} ELSE {})

\* C21: at most one run is polling at any time; a run that was replaced by
\* the run of the next document had delivered its terminal outcome (result
\* or error) before, polls no more and invoked no callback after it.
SequentialBatch ==
    /\ Cardinality(ActiveRuns) <= 1
    /\ Len(retired) = (IF runner.id = 0 THEN 0 ELSE runner.id - 1)
    /\ \A i \in DOMAIN retired :
          /\ retired[i].id = i
          /\ retired[i].outcome \in {"result", "error"}
          /\ ~retired[i].polling
          /\ retired[i].after = 0

\* The second document of a batch is being analysed (it has delivered
\* progress) after the first one delivered its result.
SequentialBatchWitness ==
    /\ Len(retired) = 1
    /\ retired[1].outcome = "result"
    /\ Len(batch.ran) = 2
    /\ runner.polling
    /\ runner.cb # <<>>

\* ----------------------------------------------------------------------- C22
\* The last document of the current batch has delivered its terminal outcome.
BatchOver ==
    /\ batch.mode # None
    /\ batch.ran = batch.files
    /\ runner.doc = batch.files[Len(batch.files)]
    /\ Outcome(runner) # None

\* MainApp is idle.
Idle ==
    /\ ~app.is_running
    /\ app.batch_queue = <<>>
    /\ app.batch_mode = None
    /\ app.output_dir = None

\* The batch report dialog is shown once when an automatic batch is over and
\* never before; an interactive batch shows no final dialog.
ReportedOnce ==
    [i \in DOMAIN batch.finals |-> batch.finals[i].dialog] =
        IF BatchOver /\ batch.mode = "auto" THEN <<"report">> ELSE <<>>

\* C22: once the last queued document has delivered its terminal outcome
\* (success, skip or failure) MainApp is idle and, in automatic mode, has
\* shown the final report exactly once; no batch is started while a run of
\* another batch is still polling.
ReturnToIdle ==
    /\ BatchOver => Idle
    /\ ReportedOnce
    /\ ~batch.overlap

\* ----------------------------------------------------------------------- C23
\* C23: when the save of a document fails in an automatic batch, the batch
\* report holds an entry for that document and the final report counts it as
\* a failure, neither as a success nor as a skip.
SaveFailureCounted ==
    (batch.mode = "auto" /\ runner.saves # <<>> /\ runner.saves[1].outcome = "failed") =>
        /\ \E i \in DOMAIN app.auto_report : app.auto_report[i].file = runner.doc
        /\ \A i \in DOMAIN app.auto_report :
              app.auto_report[i].file = runner.doc =>
                  ReportClass(app.auto_report[i]) = "failure"

\* ----------------------------------------------------------------------- C24
\* The ImageRefs a delivered CandidateSet names, whatever the category.
NamedRefs(candidates) ==
    {x \in Selectable : \E c \in Categories :
                            \E i \in DOMAIN candidates[c] : candidates[c][i].xref = x}
AutoResult ==
    /\ runner.on_result = "auto"
    /\ Outcome(runner) = "result"

\* C24: in automatic mode a run that delivered a non-empty CandidateSet has
\* called the save collaborator exactly once, whatever the user would have
\* answered, with exactly the union of the ImageRefs of all categories; a
\* run that delivered an empty CandidateSet has not called it, and a skip
\* entry (nothing removed, no output) is recorded for the document.
AutoSavesUnion ==
    AutoResult =>
      LET named == NamedRefs(runner.delivered[1])
          mine == {i \in DOMAIN app.auto_report : app.auto_report[i].file = runner.doc}
      IN /\ Len(runner.delivered) = 1
         /\ Cardinality(mine) = 1
         /\ named # {} => /\ Len(runner.saves) = 1
                          /\ runner.saves[1].xrefs = named
                          /\ runner.saves[1].outcome \in {"saved", "failed"}
         /\ named = {} => /\ runner.saves = <<>>
                          /\ \A i \in mine : /\ app.auto_report[i].removed = 0
                                             /\ app.auto_report[i].out = ""

\* An automatic run delivered candidates of two categories and the save was
\* called with both images and succeeded.
AutoSavesUnionWitness ==
    /\ AutoResult
    /\ Cardinality({c \in Categories : runner.delivered[1][c] # <<>>}) >= 2
    /\ Cardinality(runner.saves[1].xrefs) >= 2
    /\ runner.saves[1].outcome = "saved"

\* ----------------------------------------------------------------------- C25
\* C25: in interactive mode the save collaborator is called for a document
\* exactly when its run delivered a non-empty CandidateSet and the user
\* confirmed a non-empty selection, once, with that selection, which names
\* candidates only.  Whatever the answer and the fate of the save, the batch
\* goes on: a run is still held after its terminal outcome only if it was the
\* last of its batch, and a replaced run may have seen any of them.
InteractiveSaveGated ==
    /\ runner.on_result = "interactive" =>
         LET named == IF runner.delivered = <<>> THEN {}
                      ELSE NamedRefs(runner.delivered[1])
             chosen == /\ Outcome(runner) = "result"
                       /\ named # {}
                       /\ runner.preview = "confirmed"
                       /\ runner.picked # {}
         IN /\ (runner.saves # <<>>) <=> chosen
            /\ chosen => /\ Len(runner.saves) = 1
                         /\ runner.saves[1].xrefs = runner.picked
                         /\ runner.picked \subseteq named
            /\ (runner.preview # None) <=> (Outcome(runner) = "result" /\ named # {})
            /\ Outcome(runner) # None =>
                  (app.batch_queue = <<>> /\ batch.ran = batch.files)
    /\ \A i \in DOMAIN retired :
          /\ Len(retired[i].saves) <= 1
          /\ retired[i].saves # <<>> => retired[i].outcome = "result"

\* The save of the first document of an interactive batch of two failed and
\* the second document has been analysed up to its result.
InteractiveSaveGatedWitness ==
    /\ batch.mode = "interactive"
    /\ retired # <<>>
    /\ retired[Len(retired)].saves = <<"failed">>
    /\ Len(batch.ran) = 2
    /\ Outcome(runner) = "result"

\* ----------------------------------------------------------------------- C26
\* The placements of image x on page index p of the drawn document that
\* survive the scan: extraction does not raise and the size passes the filter.
Surviving(p, x) ==
    {i \in DOMAIN sdoc[p + 1].imgs :
        /\ sdoc[p + 1].imgs[i].xref = x
        /\ ~sdoc[p + 1].imgs[i].broken
        /\ x \notin TinyRefs}
PagesOfChunk(k) ==
    LET c == page_chunks(Len(sdoc), cpu)[k]
    IN {p \in 0..(Len(sdoc) - 1) : c[1] <= p /\ p < c[2]}

\* C26: a placement whose extraction raises is skipped and nothing else is
\* lost: every chunk returns a result that holds, for each image, exactly the
\* pages and placements of its range where the image survives, with bytes for
\* exactly the images it holds; an image is classified exactly when one of
\* its placements in the document survives.
ScanFailureAbsorbed ==
    /\ \A k \in DOMAIN chunks :
          /\ DOMAIN chunks[k].map =
                {x \in ScanRefs : \E p \in PagesOfChunk(k) : Surviving(p, x) # {}}
          /\ DOMAIN chunks[k].bytes = DOMAIN chunks[k].map
          /\ \A x \in DOMAIN chunks[k].map :
                /\ chunks[k].map[x].pages =
                      {p \in PagesOfChunk(k) : Surviving(p, x) # {}}
                /\ Len(chunks[k].map[x].placements) =
                      Cardinality({p \in PagesOfChunk(k) : Surviving(p, x) # {}})
    /\ (sdoc # <<>> /\ Len(arrival) = Len(page_chunks(Len(sdoc), cpu))) =>
          DOMAIN ImageTasks(reg) =
             {x \in ScanRefs : \E p \in 0..(Len(sdoc) - 1) : Surviving(p, x) # {}}

\* The 9x9 image is on both pages and its extraction raised on the first
\* one, which also shows the 9x10 image.  Every chunk is merged: the 9x10
\* image is classified, and the 9x9 image with the second page only.
ScanFailureAbsorbedWitness ==
    /\ Len(sdoc) = 2
    /\ \E i \in DOMAIN sdoc[1].imgs : sdoc[1].imgs[i].xref = 11 /\ sdoc[1].imgs[i].broken
    /\ Len(arrival) = Len(page_chunks(Len(sdoc), cpu))
    /\ {11, 14} \subseteq DOMAIN ImageTasks(reg)
    /\ reg.image_map[11].pages = {1}
    /\ 0 \in reg.image_map[14].pages

\* ----------------------------------------------------------------------- C27
RegistryOf(rn) == [image_map |-> rn.image_map, image_bytes_map |-> rn.image_bytes_map]

\* The records the classification workers were given are the registry's.
HandedRecordsStable ==
    (runner.phase = "phase2_running" /\ p2.pc # "idle") => p2.tasks = ImageTasks(runner)

\* A step that changes the registry of a run is a poll of that run in phase 1
\* that merges chunk results, taken while no classification worker exists;
\* the threads never write it.
RegistryWrite ==
    (runner'.id = runner.id /\ RegistryOf(runner') # RegistryOf(runner)) =>
        /\ runner.phase = "phase1_running"
        /\ runner.polling
        /\ runner'.completed_chunks > runner.completed_chunks
        /\ runner'.q # runner.q
        /\ p1' = p1
        /\ p2.pc = "idle"

\* C27: the registry of a run is written by the poll loop only, while the
\* run is in phase 1; from the start of phase 2 on nothing changes it, so the
\* records handed to the classification workers stay what the registry holds.
SingleWriter == []HandedRecordsStable /\ [][RegistryWrite]_vars

\* Phase 2 of a run with two tasks is half done: one worker has reported, the
\* other is still classifying its record.
SingleWriterWitness ==
    /\ runner.phase = "phase2_running"
    /\ Cardinality(DOMAIN p2.tasks) = 2
    /\ p2.completed = 1
    /\ p2.pending # {}
    /\ runner.image_map # EmptyMap

\* ----------------------------------------------------------------------- C28
\* The scan of the whole document in one piece.
WholeScan(d) == process_page_chunk_ret(d, 0, Len(Pages(d)))

\* C28: a run starts phase 2 at most once, and only when the results of all
\* the chunks announced for its document are merged; the page set and the
\* placements of every image of the registry, and of every task handed to a
\* worker, are then those of the whole document, whatever the arrival order.
ClassifiesCompleteRegistry ==
    /\ runner.p2_starts <= 1
    /\ \A i \in DOMAIN retired : retired[i].p2_starts <= 1
    /\ (runner.p2_starts = 1) <=> (runner.phase = "phase2_running")
    /\ runner.phase = "phase2_running" =>
         LET whole == WholeScan(runner.doc).map
         IN /\ runner.total_chunks = Len(page_chunks(Len(Pages(runner.doc)), cpu))
            /\ runner.completed_chunks = runner.total_chunks
            /\ DOMAIN runner.image_map = DOMAIN whole
            /\ \A x \in DOMAIN whole :
                  /\ runner.image_map[x].pages = whole[x].pages
                  /\ Range(runner.image_map[x].placements) = Range(whole[x].placements)
                  /\ Len(runner.image_map[x].placements) = Len(whole[x].placements)
            /\ \A x \in DOMAIN p2.tasks :
                  /\ p2.tasks[x].info.pages = whole[x].pages
                  /\ Range(p2.tasks[x].info.placements) = Range(whole[x].placements)

\* The two pages of "marks" were scanned as two chunks and the second page
\* arrived first; phase 2 runs with the logo on both pages.
ClassifiesCompleteRegistryWitness ==
    /\ runner.phase = "phase2_running"
    /\ runner.total_chunks = 2
    /\ 1 \in DOMAIN p2.tasks
    /\ p2.tasks[1].info.pages = {0, 1}
    /\ p2.tasks[1].info.placements[1].page_num = 1

\* ----------------------------------------------------------------------- C29
\* The chunk results still waiting in the queue of the held runner.
WaitingResults == {i \in DOMAIN runner.q : runner.q[i].type = "page_chunk_result"}

\* C29: in every state of a run 0 <= completed_chunks <= total_chunks; a
\* chunk result is handled only after the 'phase1_started' of the run, which
\* announced at least one chunk: a result waiting in the queue finds
\* total_chunks >= 1 already set or the announcement ahead of it, and every
\* value completed_chunks / total_chunks was computed with total_chunks >= 1.
CounterInvariant ==
    /\ 0 <= runner.completed_chunks
    /\ runner.completed_chunks <= runner.total_chunks
    /\ runner.completed_chunks > 0 => runner.total_chunks >= 1
    /\ \A i \in WaitingResults :
          \/ runner.total_chunks >= 1
          \/ \E j \in 1..(i - 1) : /\ runner.q[j].type = "phase1_started"
                                   /\ runner.q[j].data[1] >= 1
    /\ \A i \in DOMAIN runner.cb :
          runner.cb[i].kind = "progress" => runner.cb[i].value.den >= 1

\* Both chunk results of a two-chunk document are in the queue behind the
\* announcement, none handled yet.
CounterInvariantWitness ==
    /\ runner.total_chunks = 0
    /\ Cardinality(WaitingResults) = 2
    /\ runner.q[1].type = "phase1_started"
    /\ runner.q[1].data[1] = 2

====
